---------------------------- MODULE Spec2Model ----------------------------
(***************************************************************************)
(* A model of VSPCA: the flux-combination pipeline (SpectraBuilder.py) and *)
(* the phase-resolved analyzer (VSPEC/analysis.py).                        *)
(*                                                                         *)
(* Numbers.  Phases are fixed-point, in ticks of 1e-4 degree, so that      *)
(* round(x, 3) and the ".3f" of the file names do something.  Fluxes and   *)
(* coverage fractions are binary floating-point numbers of MantBits        *)
(* significant bits (numpy's float64 has 53), held as a count of the       *)
(* smallest step, 2^-FracBits: every arithmetic operation rounds its exact *)
(* result to the nearest representable value, ties to even.                *)
(***************************************************************************)
EXTENDS Integers, Sequences, FiniteSets, TLC

VARIABLES
    \* ---- SpectraBuilder.py: the files on disk
    stellarFiles,       \* binned{teff}StellarModel.txt for phot, spot, fac
    coverageFile,       \* surfaceCoveragePercentageDict.csv: key -> record
    psgCombined,        \* PSGCombinedSpectra/phase{p:.3f}.txt: key -> table
    psgThermal,         \* PSGThermalSpectra/phase{p:.3f}.txt: key -> table
    outDir,             \* AllModelSpectraValues/phase{i}.csv: i -> table
    writeLog,           \* the sequence of to_csv calls (their indexes)
    stdout,             \* the lines printed in the loop
    \* ---- SpectraBuilder.py: the script's state
    pc,                 \* where the script is, or the exception that ended it
    Params,             \* read_info.ParamModel()
    allModelSpectra,    \* allModels.allModelSpectra, a record of columns
    surfaceCoverageDict,
    index,
    planetPhase, starPhase, starPhaseFacingPlanet,
    PSGplanetReflectionModel, planetThermalModel,
    reflPath, thermPath,            \* the phase in the path of the last read
    tempPhase, tempPhaseFacingPlanet,
    percentagesDict, percentagesDictTowardsPlanet,
    planetReflectionOnly,           \* local of calculate_planet_flux
    synReflection,                  \* the reflection a synthetic file was built from
    run,                \* which run of the script this is
    earlier,            \* the output files as the run before left them
    \* ---- VSPEC/analysis.py: PhaseAnalyzer
    apc,                \* where the analyzer is, or the exception raised
    obsFile,            \* observation_info.csv: the phase[deg] column
    expFiles,           \* phase{i:03d}.csv: the columns of each file
    phase,              \* self.phase
    unique_phase,       \* self.unique_phase
    data,               \* self.star, ..., self.noise: bin -> exposure -> value
    call,               \* the arguments of the last call of combine
    combined,           \* what the last call of combine returned
    lcCall,             \* the arguments of the last call of lightcurve
    lc,                 \* what the last call of lightcurve returned
    \* ---- VSPEC/params/read.py: Parameters
    parameters,         \* the groups of a Parameters object
    config              \* what to_psg returned

pipeVars == <<stellarFiles, coverageFile, psgCombined, psgThermal, outDir,
              writeLog, stdout, pc, Params, allModelSpectra,
              surfaceCoverageDict, index, planetPhase, starPhase,
              starPhaseFacingPlanet, PSGplanetReflectionModel,
              planetThermalModel, reflPath, thermPath, tempPhase,
              tempPhaseFacingPlanet, percentagesDict,
              percentagesDictTowardsPlanet, planetReflectionOnly,
              synReflection, run, earlier>>

anaVars == <<apc, obsFile, expFiles, phase, unique_phase, data, call,
             combined, lcCall, lc>>

cfgVars == <<parameters, config>>

vars == <<pipeVars, anaVars, cfgVars>>

---------------------------------------------------------------------------
(* Bounds of the model *)

MaxImages == 3          \* total_images ranges over 1..MaxImages
NumBins == 2            \* wavelength bins of every table
MantBits == 3           \* significant bits of a flux value
FracBits == 2           \* 1.0 is 2^FracBits steps
MaxRuns == 2            \* the script is run at most MaxRuns times

---------------------------------------------------------------------------
(* Floating point *)

One == 2 ^ FracBits

Abs(x) == IF x < 0 THEN -x ELSE x

RECURSIVE Exponent(_)
\* the exponent e of the binade of q: q < 2^(MantBits+e), e = 0 for the
\* smallest (subnormal) range
Exponent(q) == IF q < 2 ^ MantBits THEN 0 ELSE 1 + Exponent(q \div 2)

\* num/den (num >= 0, den > 0) rounded to the nearest representable value,
\* ties to the even mantissa
RoundQ(num, den) ==
    LET g  == 2 ^ Exponent(num \div den)
        lo == (num \div (den * g)) * g
        r2 == 2 * (num - lo * den)
    IN  IF r2 < g * den THEN lo
        ELSE IF r2 > g * den THEN lo + g
        ELSE IF (lo \div g) % 2 = 0 THEN lo ELSE lo + g

Representable(n) == n >= 0 /\ RoundQ(n, 1) = n

FAdd(a, b) == RoundQ(a + b, 1)
FSub(a, b) == IF a >= b THEN RoundQ(a - b, 1) ELSE -RoundQ(b - a, 1)
FMul(a, b) == RoundQ(a * b, One)
FDiv(a, b) == RoundQ(a * One, b)
FAbs(a) == Abs(a)

Bins == 1..NumBins

---------------------------------------------------------------------------
(* Phases *)

TicksPerDeg == 10 * 1000
Deg(n) == n * TicksPerDeg

FullTurn == 360
Opposite == 180
EclipsePhase == 180
EclipseSubstitute == 182
TransitPhase == 185
TransitSubstitute == 186

\* round(x, 3), and the ".3f" of a format: to the nearest 1e-3 degree
Round3(x) ==
    LET lo == (x \div 10) * 10
        r  == x - lo
    IN  IF r < 5 THEN lo
        ELSE IF r > 5 THEN lo + 10
        ELSE IF (lo \div 10) % 2 = 0 THEN lo ELSE lo + 10


---------------------------------------------------------------------------
(* SpectraBuilder.py: the inputs of a run *)

\* what a name holds before it is assigned
NoPhase == 0 - 1
NoColumn == << >>
NoDict == << >>
NoRecord == [none |-> TRUE]

\* the raw planet phase of exposure i, before any substitution
RawPlanetPhase(P, i) ==
    (P.phase1 + P.delta_phase_planet * i) % Deg(FullTurn)

StarPhaseOf(P, i) == (P.delta_phase_star * i) % Deg(FullTurn)

\* SubstitutePhase without the rule for the transit phase
SubstitutePhase_EclipseOnly(p) ==
    IF p = Deg(EclipsePhase) THEN Deg(EclipseSubstitute) ELSE p

\* the substitutions of the external phase files
SubstitutePhase(p) ==
    LET p1 == IF p = Deg(EclipsePhase) THEN Deg(EclipseSubstitute) ELSE p
    IN  IF p1 = Deg(TransitPhase) THEN Deg(TransitSubstitute) ELSE p1

\* FacingPlanet computed after the substitution of the planet phase
FacingPlanet_Substituted(sp, pp) ==
    (Deg(Opposite) - sp + SubstitutePhase(pp)) % Deg(FullTurn)

\* line 141: the star phase facing the planet
FacingPlanet(sp, pp) == (Deg(Opposite) - sp + pp) % Deg(FullTurn)

\* BoundaryWrap comparing with total_images instead of total_images + 1
BoundaryWrap_OffByOne(sfp, total_images) ==
    IF sfp = Deg(total_images) THEN 0 ELSE sfp

\* the boundary wrap of the star phase facing the planet
BoundaryWrap(sfp, total_images) ==
    IF sfp = Deg(total_images + 1) THEN 0 ELSE sfp

\* the key of the coverage looked up towards the observer
ObserverKey(sp) == Round3(sp) % Deg(FullTurn)

\* the key of the coverage looked up towards the planet
PlanetKey(sfp) ==
    LET t == Round3(sfp) IN IF t = Deg(FullTurn) THEN 0 ELSE t

ParamSpace ==
    [ total_images : 1..MaxImages,
      phase1 : {0, Deg(175), Deg(180), Deg(180) - 4, Deg(355)}
               \cup {Deg(181 + t) : t \in 1..MaxImages},
      delta_phase_planet : {Deg(5), Deg(10)},
      delta_phase_star : {Deg(5), Deg(10) + 4},
      erg_sTOwatts : {One},
      cm2TOm2 : {One},
      cmTOum : {2 * One},
      distanceFluxCorrection : {One \div 2, One} ]

\* every phase of an external file a run may name
FileKeys(P) ==
    UNION { {Round3(RawPlanetPhase(P, i)),
             Round3(SubstitutePhase(RawPlanetPhase(P, i)))}
            : i \in 0..(P.total_images - 1) }

\* every key of the coverage table a run may look up
CoverageKeys(P) ==
    {0} \cup UNION { {ObserverKey(StarPhaseOf(P, i)),
                      PlanetKey(FacingPlanet(StarPhaseOf(P, i), RawPlanetPhase(P, i)))}
                     : i \in 0..(P.total_images - 1) }

CoverageRecords ==
    << [phot |-> One, spot |-> 0, fac |-> 0],
       [phot |-> One \div 2, spot |-> One \div 4, fac |-> One \div 4],
       [phot |-> (3 * One) \div 4, spot |-> One \div 4, fac |-> 0],
       [phot |-> One \div 4, spot |-> One \div 2, fac |-> One \div 4],
       [phot |-> One \div 2, spot |-> 0, fac |-> One \div 2] >>

\* the record the persisted table holds for key k
CoverageOf(k, off) ==
    CoverageRecords[(((k \div TicksPerDeg) + off) % Len(CoverageRecords)) + 1]

Grids == << [w \in Bins |-> w], [w \in Bins |-> w + 1] >>

\* data sets of stellar and planetary fluxes
StellarFlux(d) ==
    [ phot |-> [w \in Bins |-> 4 + d + w],
      spot |-> [w \in Bins |-> d + w - 1],
      fac  |-> [w \in Bins |-> 6 + 2 * w] ]

CombinedTable(k, d) ==
    [ stellar |-> [w \in Bins |-> 2 * d + w],
      planet  |-> [w \in Bins |-> ((k \div TicksPerDeg) + d + w) % 4] ]

ThermalTable(k, d) ==
    [ planet |-> [w \in Bins |-> ((k \div TicksPerDeg) + 2 * w) % 3] ]

DataSets == 1..2

Faults(P) ==
    {[kind |-> "none", key |-> 0]}
    \cup {[kind |-> "grid", key |-> g] : g \in 1..3}
    \cup {[kind |-> "combined", key |-> k] : k \in FileKeys(P)}
    \cup {[kind |-> "thermal", key |-> k] : k \in FileKeys(P)}
    \cup {[kind |-> "coverage", key |-> k] : k \in CoverageKeys(P)}

PipelineIdle ==
    /\ stellarFiles = NoRecord /\ coverageFile = NoDict
    /\ psgCombined = NoDict /\ psgThermal = NoDict
    /\ outDir = << >> /\ writeLog = << >> /\ stdout = << >>
    /\ pc = "idle" /\ Params = NoRecord
    /\ allModelSpectra = NoRecord /\ surfaceCoverageDict = NoDict
    /\ index = 0
    /\ planetPhase = NoPhase /\ starPhase = NoPhase
    /\ starPhaseFacingPlanet = NoPhase
    /\ PSGplanetReflectionModel = NoRecord /\ planetThermalModel = NoRecord
    /\ reflPath = NoPhase /\ thermPath = NoPhase
    /\ tempPhase = NoPhase /\ tempPhaseFacingPlanet = NoPhase
    /\ percentagesDict = NoRecord /\ percentagesDictTowardsPlanet = NoRecord
    /\ planetReflectionOnly = NoColumn /\ synReflection = NoColumn
    /\ run = 1 /\ earlier = << >>

AnalyzerIdle ==
    /\ apc = "idle" /\ obsFile = << >> /\ expFiles = << >>
    /\ phase = << >> /\ unique_phase = << >>
    /\ data = NoRecord /\ call = NoRecord /\ combined = NoColumn
    /\ lcCall = NoRecord /\ lc = NoRecord

ConfigIdle == parameters = NoRecord /\ config = NoDict

\* the state before the script runs: its inputs are on disk
PipelineInit ==
    \E P \in ParamSpace, d \in DataSets, off \in 0..1 :
      \E f \in Faults(P) :
        /\ Params = P
        /\ stellarFiles =
             [ phot |-> [wavelength |-> Grids[1], flux |-> StellarFlux(d).phot],
               spot |-> [wavelength |-> IF f.kind = "grid" /\ f.key \in {1, 3}
                                        THEN Grids[2] ELSE Grids[1],
                         flux |-> StellarFlux(d).spot],
               fac  |-> [wavelength |-> IF f.kind = "grid" /\ f.key \in {2, 3}
                                        THEN Grids[2] ELSE Grids[1],
                         flux |-> StellarFlux(d).fac] ]
        /\ coverageFile =
             [ k \in CoverageKeys(P) \ (IF f.kind = "coverage" THEN {f.key} ELSE {})
               |-> CoverageOf(k, off) ]
        /\ psgCombined =
             [ k \in FileKeys(P) \ (IF f.kind = "combined" THEN {f.key} ELSE {})
               |-> CombinedTable(k, d) ]
        /\ psgThermal =
             [ k \in FileKeys(P) \ (IF f.kind = "thermal" THEN {f.key} ELSE {})
               |-> ThermalTable(k, d) ]
        /\ outDir = << >> /\ writeLog = << >> /\ stdout = << >>
        /\ pc = "start"
        /\ allModelSpectra = NoRecord /\ surfaceCoverageDict = NoDict
        /\ index = 0
        /\ planetPhase = NoPhase /\ starPhase = NoPhase
        /\ starPhaseFacingPlanet = NoPhase
        /\ PSGplanetReflectionModel = NoRecord /\ planetThermalModel = NoRecord
        /\ reflPath = NoPhase /\ thermPath = NoPhase
        /\ tempPhase = NoPhase /\ tempPhaseFacingPlanet = NoPhase
        /\ percentagesDict = NoRecord /\ percentagesDictTowardsPlanet = NoRecord
        /\ planetReflectionOnly = NoColumn /\ synReflection = NoColumn
        /\ run = 1 /\ earlier = << >>

Init == PipelineInit /\ AnalyzerIdle /\ ConfigIdle

---------------------------------------------------------------------------
(* SpectraBuilder.py: the two free functions *)

\* photflux*photFrac + spotflux*spotFrac + facflux*facFrac, as evaluated
LinearCombination(ams, frac, w) ==
    FAdd(FAdd(FMul(ams.photflux[w], frac.phot),
              FMul(ams.spotflux[w], frac.spot)),
         FMul(ams.facflux[w], frac.fac))

\* calculate_combined_spectrum with the two coverage records exchanged
calculate_combined_spectrum_Swapped(ams, pDict, pDictTowardsPlanet) ==
    [ams EXCEPT
       !.sumflux =
           [w \in Bins |-> LinearCombination(ams, pDictTowardsPlanet, w)],
       !.sumfluxTowardsPlanet =
           [w \in Bins |-> LinearCombination(ams, pDict, w)]]

\* calculate_combined_spectrum scaling the photosphere's column in place
calculate_combined_spectrum_InPlace(ams, pDict, pDictTowardsPlanet) ==
    [ams EXCEPT
       !.photflux = [w \in Bins |-> FMul(ams.photflux[w], pDict.phot)],
       !.sumflux = [w \in Bins |-> LinearCombination(ams, pDict, w)],
       !.sumfluxTowardsPlanet =
           [w \in Bins |-> LinearCombination(ams, pDictTowardsPlanet, w)]]

\* lines 12-33
calculate_combined_spectrum(ams, pDict, pDictTowardsPlanet) ==
    [ams EXCEPT
       !.sumflux = [w \in Bins |-> LinearCombination(ams, pDict, w)],
       !.sumfluxTowardsPlanet =
           [w \in Bins |-> LinearCombination(ams, pDictTowardsPlanet, w)]]

\* PlanetReflectionOnly with the operands exchanged and no abs
PlanetReflectionOnly_Reversed(refl, therm) ==
    [w \in Bins |-> FSub(therm.planet[w], refl.planet[w])]

\* abs(PSGplanetReflectionModel.planet - planetThermalModel.planet)
PlanetReflectionOnly(refl, therm) ==
    [w \in Bins |-> FAbs(FSub(refl.planet[w], therm.planet[w]))]

\* calculate_planet_flux scaling by the flux towards the observer
calculate_planet_flux_TowardsObserver(ams, refl, therm) ==
    LET only     == [w \in Bins |-> FAbs(FSub(refl.planet[w], therm.planet[w]))]
        fraction == [w \in Bins |-> FDiv(only[w], refl.stellar[w])]
        adjusted == [w \in Bins |-> FMul(fraction[w], ams.sumflux[w])]
    IN  [ams EXCEPT
           !.planetReflection =
               [w \in Bins |-> FAdd(adjusted[w], therm.planet[w])],
           !.planetThermal = therm.planet]

calculate_planet_flux(ams, refl, therm) ==
    LET only     == PlanetReflectionOnly(refl, therm)
        fraction == [w \in Bins |-> FDiv(only[w], refl.stellar[w])]
        adjusted == [w \in Bins |->
                       FMul(fraction[w], ams.sumfluxTowardsPlanet[w])]
    IN  [ams EXCEPT
           !.planetReflection =
               [w \in Bins |-> FAdd(adjusted[w], therm.planet[w])],
           !.planetThermal = therm.planet]

---------------------------------------------------------------------------
(* SpectraBuilder.py: the script *)

SameGrid(a, b) == a.wavelength = b.wavelength

\* GridsAgree without the faculae model
GridsAgree_SpotOnly(files) == SameGrid(files.phot, files.spot)

\* line 82: the three models are on one wavelength grid
GridsAgree(files) ==
    SameGrid(files.phot, files.spot) /\ SameGrid(files.phot, files.fac)

Conversion(P) ==
    FMul(FMul(FMul(P.erg_sTOwatts, P.cm2TOm2), P.cmTOum),
         P.distanceFluxCorrection)

BaseTable(files, conversion) ==
    [ wavelength |-> files.phot.wavelength,
      photflux |-> [w \in Bins |-> FMul(files.phot.flux[w], conversion)],
      spotflux |-> [w \in Bins |-> FMul(files.spot.flux[w], conversion)],
      facflux  |-> [w \in Bins |-> FMul(files.fac.flux[w], conversion)],
      sumflux |-> NoColumn,
      sumfluxTowardsPlanet |-> NoColumn,
      planetReflection |-> NoColumn,
      planetThermal |-> NoColumn ]

\* to_csv writing every table under the name of the first exposure
to_csv_FirstName(dir, i, table) ==
    [n \in DOMAIN dir \cup {0} |-> IF n = 0 THEN table ELSE dir[n]]

\* to_csv appending the rows to a file that exists
to_csv_Append(dir, i, table) ==
    [n \in DOMAIN dir \cup {i} |->
       IF n # i THEN dir[n]
       ELSE IF i \in DOMAIN dir
            THEN [c \in DOMAIN table |-> dir[i][c] \o table[c]]
            ELSE table]

\* line 194: the working table is written to phase{index}.csv, replacing
\* the file if there is one
to_csv(dir, i, table) ==
    [n \in DOMAIN dir \cup {i} |-> IF n = i THEN table ELSE dir[n]]

exposureVars == <<index, planetPhase, starPhase, starPhaseFacingPlanet,
                  PSGplanetReflectionModel, planetThermalModel, reflPath,
                  thermPath, tempPhase, tempPhaseFacingPlanet,
                  percentagesDict, percentagesDictTowardsPlanet,
                  planetReflectionOnly>>

\* lines 66-101: load the models, check the grids, build the working table
\* and load the coverage table
Startup ==
    /\ pc = "start"
    /\ IF ~GridsAgree(stellarFiles)
       THEN /\ pc' = "ValueError"
            /\ UNCHANGED <<allModelSpectra, surfaceCoverageDict>>
       ELSE /\ allModelSpectra' = BaseTable(stellarFiles, Conversion(Params))
            /\ surfaceCoverageDict' = coverageFile
            /\ pc' = "loop"
    /\ UNCHANGED <<stellarFiles, coverageFile, psgCombined, psgThermal,
                   outDir, writeLog, stdout, Params, synReflection>>
    /\ UNCHANGED exposureVars
    /\ UNCHANGED <<run, earlier>>
    /\ UNCHANGED anaVars
    /\ UNCHANGED cfgVars

Line(text, value) == [text |-> text, value |-> value]

\* lines 107-110: percent = (index/total_images) * 100 is printed when it
\* is a multiple of 25
Progress(i, total_images) ==
    IF (4 * i) % total_images = 0
    THEN << Line("% Complete", 25 * ((4 * i) \div total_images)) >>
    ELSE << >>

\* lines 106-194: one iteration of the loop, to its end or to the exception
\* that ends the run
Exposure ==
    /\ pc = "loop"
    /\ index < Params.total_images
    /\ LET raw   == RawPlanetPhase(Params, index)
           sp    == StarPhaseOf(Params, index)
           geo   == FacingPlanet(sp, raw)
           sfp   == BoundaryWrap(geo, Params.total_images)
           pp    == SubstitutePhase(raw)
           path  == Round3(pp)
           tp    == ObserverKey(sp)
           tpfp  == PlanetKey(sfp)
       IN
       /\ stdout' = stdout \o Progress(index, Params.total_images)
                      \o << Line("planet phase", raw),
                            Line("star phase", sp),
                            Line("star phase facing planet", geo) >>
       /\ planetPhase' = pp
       /\ starPhase' = sp
       /\ starPhaseFacingPlanet' = sfp
       /\ reflPath' = path
       /\ IF path \notin DOMAIN psgCombined
          THEN \* the reflected spectrum is missing
               /\ pc' = "FileNotFoundError"
               /\ UNCHANGED <<PSGplanetReflectionModel, planetThermalModel,
                              thermPath, tempPhase, tempPhaseFacingPlanet,
                              percentagesDict, percentagesDictTowardsPlanet,
                              planetReflectionOnly, allModelSpectra, outDir,
                              writeLog, index>>
          ELSE
          /\ PSGplanetReflectionModel' = psgCombined[path]
          /\ thermPath' = path
          /\ IF path \notin DOMAIN psgThermal
             THEN \* the thermal spectrum is missing
                  /\ pc' = "FileNotFoundError"
                  /\ UNCHANGED <<planetThermalModel, tempPhase,
                                 tempPhaseFacingPlanet, percentagesDict,
                                 percentagesDictTowardsPlanet,
                                 planetReflectionOnly, allModelSpectra,
                                 outDir, writeLog, index>>
             ELSE
             /\ planetThermalModel' = psgThermal[path]
             /\ tempPhase' = tp
             /\ tempPhaseFacingPlanet' = tpfp
             /\ IF tp \notin DOMAIN surfaceCoverageDict
                THEN /\ pc' = "KeyError"
                     /\ UNCHANGED <<percentagesDict,
                                    percentagesDictTowardsPlanet,
                                    planetReflectionOnly, allModelSpectra,
                                    outDir, writeLog, index>>
                ELSE
                /\ percentagesDict' = surfaceCoverageDict[tp]
                /\ IF tpfp \notin DOMAIN surfaceCoverageDict
                   THEN /\ pc' = "KeyError"
                        /\ UNCHANGED <<percentagesDictTowardsPlanet,
                                       planetReflectionOnly, allModelSpectra,
                                       outDir, writeLog, index>>
                   ELSE
                   LET summed == calculate_combined_spectrum(
                                     allModelSpectra,
                                     surfaceCoverageDict[tp],
                                     surfaceCoverageDict[tpfp])
                       table  == calculate_planet_flux(
                                     summed, psgCombined[path],
                                     psgThermal[path])
                   IN
                   /\ percentagesDictTowardsPlanet' = surfaceCoverageDict[tpfp]
                   /\ planetReflectionOnly' =
                          PlanetReflectionOnly(psgCombined[path],
                                               psgThermal[path])
                   /\ allModelSpectra' = table
                   /\ outDir' = to_csv(outDir, index, table)
                   /\ writeLog' = Append(writeLog, index)
                   /\ index' = index + 1
                   /\ pc' = "loop"
    /\ UNCHANGED <<stellarFiles, coverageFile, psgCombined, psgThermal,
                   Params, surfaceCoverageDict, synReflection, run, earlier>>
    /\ UNCHANGED anaVars
    /\ UNCHANGED cfgVars

\* the loop is over
Finish ==
    /\ pc = "loop"
    /\ index = Params.total_images
    /\ pc' = "done"
    /\ UNCHANGED <<stellarFiles, coverageFile, psgCombined, psgThermal,
                   outDir, writeLog, stdout, Params, allModelSpectra,
                   surfaceCoverageDict, synReflection>>
    /\ UNCHANGED exposureVars
    /\ UNCHANGED <<run, earlier>>
    /\ UNCHANGED anaVars
    /\ UNCHANGED cfgVars

\* the script has ended and is run again on the files as they are: the
\* inputs and the output files are still there, the process state is new
Rerun ==
    /\ pc \in {"done", "ValueError", "FileNotFoundError", "KeyError"}
    /\ run < MaxRuns
    /\ run' = run + 1
    /\ earlier' = outDir
    /\ pc' = "start"
    /\ writeLog' = << >> /\ stdout' = << >>
    /\ allModelSpectra' = NoRecord /\ surfaceCoverageDict' = NoDict
    /\ index' = 0
    /\ planetPhase' = NoPhase /\ starPhase' = NoPhase
    /\ starPhaseFacingPlanet' = NoPhase
    /\ PSGplanetReflectionModel' = NoRecord /\ planetThermalModel' = NoRecord
    /\ reflPath' = NoPhase /\ thermPath' = NoPhase
    /\ tempPhase' = NoPhase /\ tempPhaseFacingPlanet' = NoPhase
    /\ percentagesDict' = NoRecord /\ percentagesDictTowardsPlanet' = NoRecord
    /\ planetReflectionOnly' = NoColumn
    /\ UNCHANGED <<stellarFiles, coverageFile, psgCombined, psgThermal,
                   outDir, Params, synReflection>>
    /\ UNCHANGED anaVars
    /\ UNCHANGED cfgVars

Next == Startup \/ Exposure \/ Finish \/ Rerun

Spec == Init /\ [][Next]_vars

---------------------------------------------------------------------------
(* The two free functions on their own, over every input within the bounds *)

MaxFlux == 10           \* the largest flux value drawn

FluxSamples == {v \in 0..MaxFlux : Representable(v)}

\* a column whose first bin is v
Column(v) == [w \in Bins |-> RoundQ(v + w - 1, 1)]

\* every record of coverage fractions that sum to 1
CoverageSpace ==
    {c \in [phot : 0..One, spot : 0..One, fac : 0..One] :
        c.phot + c.spot + c.fac = One}

FunctionIdle ==
    /\ stellarFiles = NoRecord /\ coverageFile = NoDict
    /\ psgCombined = NoDict /\ psgThermal = NoDict
    /\ outDir = << >> /\ writeLog = << >> /\ stdout = << >>
    /\ Params = NoRecord /\ surfaceCoverageDict = NoDict
    /\ index = 0
    /\ planetPhase = NoPhase /\ starPhase = NoPhase
    /\ starPhaseFacingPlanet = NoPhase
    /\ reflPath = NoPhase /\ thermPath = NoPhase
    /\ tempPhase = NoPhase /\ tempPhaseFacingPlanet = NoPhase
    /\ planetReflectionOnly = NoColumn
    /\ run = 1 /\ earlier = << >>

functionFrame == <<stellarFiles, coverageFile, psgCombined, psgThermal,
                   outDir, writeLog, stdout, Params, surfaceCoverageDict,
                   index, planetPhase, starPhase, starPhaseFacingPlanet,
                   reflPath, thermPath, tempPhase, tempPhaseFacingPlanet,
                   run, earlier>>

\* calculate_combined_spectrum is about to be called
CombineInit ==
    /\ pc = "call"
    /\ FunctionIdle /\ AnalyzerIdle /\ ConfigIdle
    /\ \E ph \in FluxSamples, sp \in FluxSamples, fa \in FluxSamples :
         allModelSpectra =
           [ wavelength |-> Grids[1],
             photflux |-> Column(ph), spotflux |-> Column(sp),
             facflux |-> Column(fa),
             sumflux |-> NoColumn, sumfluxTowardsPlanet |-> NoColumn,
             planetReflection |-> NoColumn, planetThermal |-> NoColumn ]
    /\ percentagesDict \in CoverageSpace
    /\ percentagesDictTowardsPlanet =
         [ phot |-> percentagesDict.fac, spot |-> percentagesDict.phot,
           fac |-> percentagesDict.spot ]
    /\ PSGplanetReflectionModel = NoRecord /\ planetThermalModel = NoRecord
    /\ synReflection = NoColumn

CombineCall ==
    /\ pc = "call"
    /\ allModelSpectra' =
         calculate_combined_spectrum(allModelSpectra, percentagesDict,
                                     percentagesDictTowardsPlanet)
    /\ pc' = "returned"
    /\ UNCHANGED <<percentagesDict, percentagesDictTowardsPlanet,
                   PSGplanetReflectionModel, planetThermalModel,
                   planetReflectionOnly, synReflection>>
    /\ UNCHANGED functionFrame
    /\ UNCHANGED anaVars
    /\ UNCHANGED cfgVars

SpecCombine == CombineInit /\ [][CombineCall]_vars

\* calculate_planet_flux is about to be called on an external combined file
\* whose planet column was built as thermal + reflection
PlanetInit ==
    /\ pc = "call"
    /\ FunctionIdle /\ AnalyzerIdle /\ ConfigIdle
    /\ \E t \in FluxSamples, r \in FluxSamples, st \in 1..3 :
         /\ planetThermalModel = [planet |-> Column(t)]
         /\ synReflection = Column(r)
         /\ PSGplanetReflectionModel =
              [ stellar |-> Column(st),
                planet |-> [w \in Bins |-> FAdd(Column(t)[w], Column(r)[w])] ]
    /\ \E tp \in FluxSamples :
         allModelSpectra =
           [ wavelength |-> Grids[1],
             photflux |-> Column(tp), spotflux |-> Column(0),
             facflux |-> Column(0),
             sumflux |-> Column(tp), sumfluxTowardsPlanet |-> Column(tp),
             planetReflection |-> NoColumn, planetThermal |-> NoColumn ]
    /\ percentagesDict = CoverageRecords[1]
    /\ percentagesDictTowardsPlanet = CoverageRecords[1]

PlanetFluxCall ==
    /\ pc = "call"
    /\ planetReflectionOnly' =
         PlanetReflectionOnly(PSGplanetReflectionModel, planetThermalModel)
    /\ allModelSpectra' =
         calculate_planet_flux(allModelSpectra, PSGplanetReflectionModel,
                               planetThermalModel)
    /\ pc' = "returned"
    /\ UNCHANGED <<percentagesDict, percentagesDictTowardsPlanet,
                   PSGplanetReflectionModel, planetThermalModel,
                   synReflection>>
    /\ UNCHANGED functionFrame
    /\ UNCHANGED anaVars
    /\ UNCHANGED cfgVars

SpecPlanet == PlanetInit /\ [][PlanetFluxCall]_vars

---------------------------------------------------------------------------
(* VSPEC/analysis.py: PhaseAnalyzer *)

\* The analyzer's numbers are exact: a flux is an integer, a mean is the
\* fraction num/den and a square root is kept as the fraction under it.

UnwrapStep == 360
PhaseUnit == "deg"
UnwrapStepUnit == "deg_C"

\* astropy's physical type of a unit
PhysicalType(unit) ==
    CASE unit \in {"deg", "rad"} -> "angle"
      [] unit \in {"deg_C", "K"} -> "temperature"
      [] OTHER -> "other"

\* a quantity in unit b can be added to one in unit a
Compatible(a, b) == PhysicalType(a) = PhysicalType(b)

\* NeedsUnwrap with "not greater than" for "smaller than"
NeedsUnwrap_OrEqual(prev, next) == prev >= next

\* line 30: the condition of the while loop
NeedsUnwrap(prev, next) == prev > next

RECURSIVE Unwrap(_, _)
\* lines 29-31, from index i on: the unwrapped sequence, or the failure of
\* the first addition
Unwrap(up, i) ==
    IF i >= Len(up) THEN [error |-> FALSE, value |-> up]
    ELSE IF NeedsUnwrap(up[i], up[i + 1])
         THEN IF Compatible(PhaseUnit, UnwrapStepUnit)
              THEN Unwrap([up EXCEPT ![i + 1] = @ + UnwrapStep], i)
              ELSE [error |-> TRUE, value |-> up]
         ELSE Unwrap(up, i + 1)

Sources == <<"star", "reflected", "planet_thermal", "total", "noise">>

\* the attribute a column of the files is stored in
AttributeOf(kind) == IF kind = "planet_thermal" THEN "thermal" ELSE kind

RECURSIVE FirstMissing(_, _, _)
\* lines 41-69: the first (file, column) the loop fails to find, from file i
\* and column k on; <<0, 0>> when there is none
FirstMissing(files, i, k) ==
    IF i > Len(files) THEN <<0, 0>>
    ELSE IF k > Len(Sources) THEN FirstMissing(files, i + 1, 1)
    ELSE IF Sources[k] \notin DOMAIN files[i] THEN <<i, k>>
    ELSE FirstMissing(files, i, k + 1)

\* lines 70-74: the arrays, bin by exposure
Arrays(files) ==
    [ a \in {"star", "reflected", "thermal", "total", "noise"} |->
        [ w \in Bins |->
            [ i \in 1..Len(files) |->
                files[i][IF a = "thermal" THEN "planet_thermal" ELSE a][w] ] ] ]

\* the exposures slice(start, stop) selects of n
Slice(start, stop, n) ==
    {i \in 1..n : start < i /\ i <= stop}

RECURSIVE SumOver(_, _)
SumOver(f, S) ==
    IF S = {} THEN 0
    ELSE LET i == CHOOSE j \in S : TRUE IN f[i] + SumOver(f, S \ {i})

\* lines 116-119: the square root of sum(noise**2) / N_images**2
CombineNoise(arr, sel) ==
    [ w \in Bins |->
        [ root |-> TRUE,
          num |-> SumOver([i \in sel |-> arr[w][i] * arr[w][i]], sel),
          den |-> Cardinality(sel) * Cardinality(sel) ] ]

\* lines 121-125: the mean of the selected exposures, each with the draw
\* eps of the standard normal times its noise when noise is asked for
CombineMean(arr, sigma, sel, noiseFlag, eps) ==
    [ w \in Bins |->
        [ root |-> FALSE,
          num |-> SumOver([i \in sel |->
                             arr[w][i] + (IF noiseFlag THEN eps * sigma[w][i]
                                          ELSE 0)], sel),
          den |-> Cardinality(sel) ] ]

\* combine taking the noise flag into account whatever the source
combine_NoiseAlways(d, source, start, stop, noiseFlag, eps) ==
    LET sel == Slice(start, stop, Len(d.noise[1]))
    IN  IF source = "noise" /\ ~noiseFlag
        THEN CombineNoise(d.noise, sel)
        ELSE CombineMean(d[source], d.noise, sel, noiseFlag, eps)

\* lines 103-125
combine(d, source, start, stop, noiseFlag, eps) ==
    LET sel == Slice(start, stop, Len(d.noise[1]))
    IN  IF source = "noise"
        THEN CombineNoise(d.noise, sel)
        ELSE CombineMean(d[source], d.noise, sel, noiseFlag, eps)

---------------------------------------------------------------------------
(* lightcurve: its division is floating point, a quotient being a count   *)
(* of steps of 2^-FracBits                                                *)

\* a + b rounded, for operands of either sign
SignedAdd(a, b) ==
    IF a + b >= 0 THEN RoundQ(a + b, 1) ELSE 0 - RoundQ(0 - (a + b), 1)

RECURSIVE SumBins(_, _, _)
\* the sum of f over the bins lo..hi, accumulated in order
SumBins(f, lo, hi) ==
    IF hi < lo THEN 0 ELSE SignedAdd(SumBins(f, lo, hi - 1), f[hi])

\* line 96: y.mean(axis=0) over the bins lo..hi
MeanOverBins(f, lo, hi) ==
    LET total == SumBins(f, lo, hi)
        count == hi - lo + 1
    IN  IF total >= 0 THEN RoundQ(total, count)
        ELSE 0 - RoundQ(0 - total, count)

\* a / b as numpy divides: not finite (nan or inf) when b is 0
Quotient(a, b) ==
    IF b = 0 THEN [finite |-> FALSE, value |-> 0]
    ELSE [finite |-> TRUE,
          value |-> IF (a < 0) = (b < 0) THEN RoundQ(Abs(a) * One, Abs(b))
                    ELSE 0 - RoundQ(Abs(a) * One, Abs(b))]

RECURSIVE MaxOf(_, _)
\* y.max() over the first n values
MaxOf(y, n) ==
    IF n = 1 THEN y[1]
    ELSE LET m == MaxOf(y, n - 1) IN IF y[n] > m THEN y[n] ELSE m

\* lines 90-96: the series before normalisation, one value an exposure
Series(d, source, pixel, noiseFlag, eps) ==
    LET cell(w) ==
            [i \in 1..Len(d.noise[1]) |->
               IF noiseFlag
               THEN SignedAdd(d[source][w][i], eps * d.noise[w][i])
               ELSE d[source][w][i]]
    IN  [i \in 1..Len(d.noise[1]) |->
           IF pixel.single THEN cell(pixel.start + 1)[i]
           ELSE MeanOverBins([w \in Bins |-> cell(w)[i]], pixel.start + 1,
                             IF pixel.stop < NumBins THEN pixel.stop
                             ELSE NumBins)]

\* lightcurve dividing by the first exposure whatever normalize is
lightcurve_ByFirst(d, source, pixel, normalize, noiseFlag, eps) ==
    LET y == Series(d, source, pixel, noiseFlag, eps)
    IN  IF normalize.kind = "int"
        THEN [unit |-> "", values |-> [i \in DOMAIN y |-> Quotient(y[i], y[1])]]
        ELSE IF normalize.kind = "max"
        THEN [unit |-> "",
              values |-> [i \in DOMAIN y |-> Quotient(y[i], MaxOf(y, Len(y)))]]
        ELSE [unit |-> "flux",
              values |-> [i \in DOMAIN y |-> [finite |-> TRUE, value |-> y[i]]]]

\* lines 76-101
lightcurve(d, source, pixel, normalize, noiseFlag, eps) ==
    LET y == Series(d, source, pixel, noiseFlag, eps)
    IN  IF normalize.kind = "int"
        THEN [unit |-> "",
              values |-> [i \in DOMAIN y |->
                            Quotient(y[i], y[normalize.at + 1])]]
        ELSE IF normalize.kind = "max"
        THEN [unit |-> "",
              values |-> [i \in DOMAIN y |-> Quotient(y[i], MaxOf(y, Len(y)))]]
        ELSE [unit |-> "flux",
              values |-> [i \in DOMAIN y |-> [finite |-> TRUE, value |-> y[i]]]]

---------------------------------------------------------------------------
(* PhaseAnalyzer: its inputs and its operations *)

MaxSigma == 2           \* the largest noise value of a first bin

PhaseSamples == {10, 20, 350}

\* the columns of the file of an exposure with star flux s and noise sigma
ExposureFile(s, sigma) ==
    [ k \in {"wavelength", "star", "reflected", "planet_thermal", "total",
             "noise"} |->
        [ w \in Bins |->
            CASE k = "wavelength" -> w
              [] k = "star" -> s + w
              [] k = "reflected" -> w
              [] k = "planet_thermal" -> 1
              [] k = "total" -> s + 2 * w + 1
              [] k = "noise" -> sigma + w - 1 ] ]

Without(file, kind) == [k \in DOMAIN file \ {kind} |-> file[k]]

\* the state before PhaseAnalyzer(path) is called: its files are on disk
AnalyzerInit ==
    /\ apc = "start"
    /\ \E n \in 1..MaxImages :
         /\ obsFile \in [1..n -> PhaseSamples]
         /\ \E sig \in [1..n -> 1..MaxSigma] :
              \E fi \in 0..n, fk \in DOMAIN ExposureFile(0, 0) :
                expFiles =
                  [ i \in 1..n |->
                      IF i = fi
                      THEN Without(ExposureFile(2 + 2 * i, sig[i]), fk)
                      ELSE ExposureFile(2 + 2 * i, sig[i]) ]
    /\ phase = << >> /\ unique_phase = << >>
    /\ data = NoRecord /\ call = NoRecord /\ combined = NoColumn
    /\ lcCall = NoRecord /\ lc = NoRecord

\* the files that hold every column of Sources
Complete(files) ==
    SelectSeq(files, LAMBDA f : \A k \in 1..Len(Sources) : Sources[k] \in DOMAIN f)

\* Construct passing over a file that lacks a column instead of failing
Construct_SkippingIncomplete ==
    /\ apc = "start"
    /\ phase' = obsFile
    /\ LET u == Unwrap(obsFile, 1)
       IN  /\ unique_phase' = u.value
           /\ IF u.error
              THEN /\ apc' = "UnitConversionError"
                   /\ data' = data
              ELSE IF "wavelength" \notin DOMAIN expFiles[1]
              THEN /\ apc' = "KeyError"
                   /\ data' = data
              ELSE /\ apc' = "ready"
                   /\ data' = Arrays(Complete(expFiles))
    /\ UNCHANGED <<obsFile, expFiles, call, combined, lcCall, lc>>
    /\ UNCHANGED pipeVars
    /\ UNCHANGED cfgVars

\* lines 23-74: PhaseAnalyzer.__init__
Construct ==
    /\ apc = "start"
    /\ phase' = obsFile
    /\ LET u == Unwrap(obsFile, 1)
           m == FirstMissing(expFiles, 1, 1)
       IN  /\ unique_phase' = u.value
           /\ IF u.error
              THEN /\ apc' = "UnitConversionError"
                   /\ data' = data
              ELSE IF "wavelength" \notin DOMAIN expFiles[1]
              THEN /\ apc' = "KeyError"
                   /\ data' = data
              ELSE IF m # <<0, 0>>
              THEN /\ apc' = "IndexError"
                   /\ data' = data
              ELSE /\ apc' = "ready"
                   /\ data' = Arrays(expFiles)
    /\ UNCHANGED <<obsFile, expFiles, call, combined, lcCall, lc>>
    /\ UNCHANGED pipeVars
    /\ UNCHANGED cfgVars

\* a call of combine(source, images, noise)
Combine ==
    /\ apc = "ready"
    /\ call = NoRecord
    /\ \E k \in 1..Len(Sources), start \in 0..Len(phase),
          stop \in 0..(Len(phase) + 1), noiseFlag \in BOOLEAN,
          eps \in {0 - 1, 1} :
         /\ start < stop
         /\ call' = [ source |-> AttributeOf(Sources[k]), start |-> start,
                      stop |-> stop, noise |-> noiseFlag ]
         /\ combined' = combine(data, AttributeOf(Sources[k]), start, stop,
                                noiseFlag, eps)
    /\ UNCHANGED <<apc, obsFile, expFiles, phase, unique_phase, data, lcCall,
                   lc>>
    /\ UNCHANGED pipeVars
    /\ UNCHANGED cfgVars

\* the pixels, the normalisations and the noise a call of lightcurve is
\* given
Pixels ==
    {[single |-> TRUE, start |-> k, stop |-> k + 1] : k \in 0..(NumBins - 1)}
    \cup {[single |-> FALSE, start |-> a, stop |-> b] :
            a \in 0..(NumBins - 1), b \in 1..NumBins}

Normalizations(n) ==
    {[kind |-> "none", at |-> 0], [kind |-> "max", at |-> 0]}
    \cup {[kind |-> "int", at |-> j] : j \in 0..(n - 1)}

\* a call of lightcurve(source, pixel, normalize, noise)
Lightcurve ==
    /\ apc = "ready"
    /\ call = NoRecord /\ lcCall = NoRecord
    /\ \E k \in 1..Len(Sources), pixel \in Pixels,
          normalize \in Normalizations(Len(phase)), noiseFlag \in BOOLEAN,
          eps \in {0 - 1, 1} :
         /\ pixel.start < pixel.stop
         /\ noiseFlag \/ eps = 1
         /\ lcCall' = [ source |-> AttributeOf(Sources[k]), pixel |-> pixel,
                        normalize |-> normalize, noise |-> noiseFlag ]
         /\ lc' = lightcurve(data, AttributeOf(Sources[k]), pixel, normalize,
                             noiseFlag, eps)
    /\ UNCHANGED <<apc, obsFile, expFiles, phase, unique_phase, data, call,
                   combined>>
    /\ UNCHANGED pipeVars
    /\ UNCHANGED cfgVars

\* the caller is done with what the call returned
Discard ==
    /\ call # NoRecord \/ lcCall # NoRecord
    /\ call' = NoRecord
    /\ combined' = NoColumn
    /\ lcCall' = NoRecord
    /\ lc' = NoRecord
    /\ UNCHANGED <<apc, obsFile, expFiles, phase, unique_phase, data>>
    /\ UNCHANGED pipeVars
    /\ UNCHANGED cfgVars

AnalyzerNext == Construct \/ Combine \/ Discard

InitAnalyzer == PipelineIdle /\ AnalyzerInit /\ ConfigIdle

SpecAnalyzer == InitAnalyzer /\ [][AnalyzerNext]_vars

\* the star fluxes of the files lightcurve is taken of: a first bin holds
\* s + 1, so that one of them is 0
StarSamples == {0 - 1, 2, 5}

\* the state before PhaseAnalyzer(path) is called on complete files whose
\* recorded phase increases
LightcurveInit ==
    /\ apc = "start"
    /\ \E n \in 1..MaxImages :
         /\ obsFile = [i \in 1..n |-> 10 * i]
         /\ \E st \in [1..n -> StarSamples] :
              expFiles = [i \in 1..n |-> ExposureFile(st[i], 1 + (i % MaxSigma))]
    /\ phase = << >> /\ unique_phase = << >>
    /\ data = NoRecord /\ call = NoRecord /\ combined = NoColumn
    /\ lcCall = NoRecord /\ lc = NoRecord

InitLightcurve == PipelineIdle /\ LightcurveInit /\ ConfigIdle

LightcurveNext == Construct \/ Lightcurve \/ Discard

SpecLightcurve == InitLightcurve /\ [][LightcurveNext]_vars

---------------------------------------------------------------------------
(* VSPEC/params/read.py: Parameters.to_psg *)

\* round(num / den) as Python rounds: to the nearest integer, ties to even
RoundHalfEven(num, den) ==
    LET lo == num \div den
        r2 == 2 * (num - lo * den)
    IN  IF r2 < den THEN lo
        ELSE IF r2 > den THEN lo + 1
        ELSE IF lo % 2 = 0 THEN lo ELSE lo + 1

\* the groups whose translation to_psg merges, in the order it merges them
MergeOrder == <<"star", "planet", "system", "psg", "inst">>

\* keys of the external tool's configuration
PsgKeys == {"GENERATOR-NOISEFRAMES", "OBJECT-STAR-TYPE", "GENERATOR-RANGE1"}

\* what the to_psg() of a group may return: any of the keys, each with a
\* value that tells the group
Translations(group) == {[k \in D |-> group] : D \in SUBSET PsgKeys}

\* dict.update: the keys of b overwrite those of a
Update(a, b) ==
    [k \in DOMAIN a \cup DOMAIN b |-> IF k \in DOMAIN b THEN b[k] ELSE a[k]]

\* lines 170-174: the mapping to_psg starts from
Seed(p) ==
    [k \in {"GENERATOR-NOISEFRAMES"} |->
       ToString(RoundHalfEven(p.obs_integration_time,
                              p.detector_integration_time))]

\* to_psg merging inst before psg
to_psg_InstBeforePsg(p) ==
    Update(Update(Update(Update(Update(Seed(p), p.star), p.planet), p.system),
                  p.inst), p.psg)

\* lines 169-180
to_psg(p) ==
    Update(Update(Update(Update(Update(Seed(p), p.star), p.planet), p.system),
                  p.psg), p.inst)

\* a Parameters object on which to_psg is about to be called
ToPsgInit ==
    /\ pc = "call"
    /\ FunctionIdle /\ AnalyzerIdle
    /\ allModelSpectra = NoRecord
    /\ percentagesDict = NoRecord /\ percentagesDictTowardsPlanet = NoRecord
    /\ PSGplanetReflectionModel = NoRecord /\ planetThermalModel = NoRecord
    /\ synReflection = NoColumn
    /\ parameters \in
         [ obs_integration_time : {1, 3, 5},
           detector_integration_time : {2},
           star : Translations("star"), planet : Translations("planet"),
           system : Translations("system"), psg : Translations("psg"),
           inst : Translations("inst") ]
    /\ config = NoDict

ToPsgCall ==
    /\ pc = "call"
    /\ config' = to_psg(parameters)
    /\ pc' = "returned"
    /\ UNCHANGED parameters
    /\ UNCHANGED <<allModelSpectra, percentagesDict,
                   percentagesDictTowardsPlanet, PSGplanetReflectionModel,
                   planetThermalModel, planetReflectionOnly, synReflection>>
    /\ UNCHANGED functionFrame
    /\ UNCHANGED anaVars

SpecToPsg == ToPsgInit /\ [][ToPsgCall]_vars

---------------------------------------------------------------------------
(* Properties of the flux-combination pipeline *)

\* an exposure has started
InExposure == planetPhase # NoPhase

\* the index of the exposure that started last
LastExposure ==
    IF pc \in {"FileNotFoundError", "KeyError"} THEN index ELSE index - 1

\* the last exposure ran to its end
ExposureCompleted == pc \in {"loop", "done"} /\ index > 0

\* the last exposure read its reflected file, and its thermal file
ReadReflected == InExposure /\ reflPath \in DOMAIN psgCombined
ReadThermal == ReadReflected /\ thermPath \in DOMAIN psgThermal

\* the last exposure looked up both coverage records
LookedUp ==
    /\ ReadThermal
    /\ tempPhase \in DOMAIN surfaceCoverageDict
    /\ tempPhaseFacingPlanet \in DOMAIN surfaceCoverageDict

\* the geometry of the last exposure, from the parameters alone
RawOfLast ==
    (Params.phase1 + Params.delta_phase_planet * LastExposure) % Deg(360)
StarOfLast == (Params.delta_phase_star * LastExposure) % Deg(360)
FacingOfLast == (Deg(180) - StarOfLast + RawOfLast) % Deg(360)

\* C1: when calculate_combined_spectrum has returned, sumflux is
\* p*photflux + s*spotflux + f*facflux at every wavelength for the record
\* (p, s, f) given for the observer, and sumfluxTowardsPlanet is the same
\* combination for the record given for the planet.
C1_Linearity ==
    pc = "returned" =>
      \A w \in Bins :
        /\ allModelSpectra.sumflux[w] =
             FAdd(FAdd(FMul(percentagesDict.phot, allModelSpectra.photflux[w]),
                       FMul(percentagesDict.spot, allModelSpectra.spotflux[w])),
                  FMul(percentagesDict.fac, allModelSpectra.facflux[w]))
        /\ allModelSpectra.sumfluxTowardsPlanet[w] =
             FAdd(FAdd(FMul(percentagesDictTowardsPlanet.phot,
                            allModelSpectra.photflux[w]),
                       FMul(percentagesDictTowardsPlanet.spot,
                            allModelSpectra.spotflux[w])),
                  FMul(percentagesDictTowardsPlanet.fac,
                       allModelSpectra.facflux[w]))

C1_Witness ==
    /\ pc = "returned"
    /\ percentagesDict.phot > 0 /\ percentagesDict.spot > 0
    /\ percentagesDict.fac > 0
    /\ percentagesDict # percentagesDictTowardsPlanet
    /\ allModelSpectra.sumflux # allModelSpectra.sumfluxTowardsPlanet
    /\ \A w \in Bins : allModelSpectra.sumflux[w] > 0

\* C2: after every exposure that ran to its end, at every wavelength
\* planetReflection = (|PSGreflection.planet - PSGthermal.planet| /
\* PSGreflection.stellar) * sumfluxTowardsPlanet + PSGthermal.planet and
\* planetThermal = PSGthermal.planet, with the tables read and the
\* sumfluxTowardsPlanet computed in that exposure; the table is what was
\* written for the exposure.
C2_PlanetFlux ==
    ExposureCompleted =>
      /\ PSGplanetReflectionModel = psgCombined[reflPath]
      /\ planetThermalModel = psgThermal[thermPath]
      /\ outDir[index - 1] = allModelSpectra
      /\ \A w \in Bins :
           /\ allModelSpectra.sumfluxTowardsPlanet[w] =
                LinearCombination(allModelSpectra,
                                  surfaceCoverageDict[tempPhaseFacingPlanet], w)
           /\ allModelSpectra.planetReflection[w] =
                FAdd(FMul(FDiv(Abs(FSub(PSGplanetReflectionModel.planet[w],
                                        planetThermalModel.planet[w])),
                               PSGplanetReflectionModel.stellar[w]),
                          allModelSpectra.sumfluxTowardsPlanet[w]),
                     planetThermalModel.planet[w])
           /\ allModelSpectra.planetThermal[w] = planetThermalModel.planet[w]

C2_Witness ==
    /\ ExposureCompleted /\ index > 1
    /\ allModelSpectra.sumflux # allModelSpectra.sumfluxTowardsPlanet
    /\ outDir[index - 1] # outDir[index - 2]
    /\ \A w \in Bins :
         /\ PSGplanetReflectionModel.planet[w] # planetThermalModel.planet[w]
         /\ allModelSpectra.planetReflection[w] > allModelSpectra.planetThermal[w]

\* C3 as claimed: whenever the combined file's planet column was built as
\* thermal + reflection from non-negative arrays, the recovered
\* reflectionOnly equals the reflection at every wavelength.
C3_RoundTripExact ==
    (pc = "returned" /\ synReflection # NoColumn) =>
      \A w \in Bins : planetReflectionOnly[w] = synReflection[w]

\* C3 amended: the recovered reflectionOnly equals the reflection at every
\* wavelength where the planet column is thermal + reflection without
\* rounding.
C3_RoundTripWhenSumExact ==
    (pc = "returned" /\ synReflection # NoColumn) =>
      \A w \in Bins :
        (PSGplanetReflectionModel.planet[w] =
            planetThermalModel.planet[w] + synReflection[w])
        => planetReflectionOnly[w] = synReflection[w]

C3_Witness ==
    /\ pc = "returned" /\ synReflection # NoColumn
    /\ \A w \in Bins :
         /\ synReflection[w] > 0 /\ planetThermalModel.planet[w] > 0
         /\ PSGplanetReflectionModel.planet[w] =
              planetThermalModel.planet[w] + synReflection[w]
         /\ planetReflectionOnly[w] = synReflection[w]

\* C4: when the spot or the faculae model is not on the photosphere's
\* wavelength grid, the run never gets past its start other than by the
\* ValueError: no exposure starts and nothing is written.
C4_GridMismatchFatal ==
    (stellarFiles.phot.wavelength # stellarFiles.spot.wavelength
       \/ stellarFiles.phot.wavelength # stellarFiles.fac.wavelength)
    => /\ pc \in {"start", "ValueError"}
       /\ ~InExposure /\ index = 0 /\ stdout = << >>
       /\ outDir = << >> /\ writeLog = << >>
       /\ allModelSpectra = NoRecord

C4_Witness ==
    /\ pc = "ValueError"
    /\ stellarFiles.phot.wavelength = stellarFiles.spot.wavelength
    /\ stellarFiles.phot.wavelength # stellarFiles.fac.wavelength
    /\ outDir = << >>

\* C5: in every exposure the reflected file is read for phase 182 when the
\* raw planet phase is 180, for 186 when it is 185 and for the raw phase
\* otherwise, and the thermal file is read for the phase of the reflected.
C5_PhaseSubstitution ==
    InExposure =>
      /\ RawOfLast = Deg(180) => reflPath = Deg(182)
      /\ RawOfLast = Deg(185) => reflPath = Deg(186)
      /\ RawOfLast \notin {Deg(180), Deg(185)} => reflPath = Round3(RawOfLast)
      /\ ReadReflected => thermPath = reflPath

C5_Witness ==
    /\ ExposureCompleted /\ index = 2
    /\ Params.phase1 = Deg(180) /\ RawOfLast = Deg(185)
    /\ reflPath = Deg(186) /\ thermPath = Deg(186)
    /\ planetPhase = Deg(186)

C7_BoundaryWrap ==
    InExposure =>
      IF FacingOfLast = Deg(Params.total_images + 1)
      THEN /\ starPhaseFacingPlanet = 0
           /\ ReadThermal => tempPhaseFacingPlanet = 0
           /\ LookedUp => percentagesDictTowardsPlanet = surfaceCoverageDict[0]
      ELSE /\ starPhaseFacingPlanet = FacingOfLast
           /\ ReadThermal =>
                tempPhaseFacingPlanet =
                  (IF Round3(FacingOfLast) = Deg(360) THEN 0
                   ELSE Round3(FacingOfLast))
           /\ LookedUp =>
                percentagesDictTowardsPlanet =
                  surfaceCoverageDict[tempPhaseFacingPlanet]

C7_Witness ==
    /\ ExposureCompleted
    /\ FacingOfLast = Deg(Params.total_images + 1)
    /\ starPhaseFacingPlanet = 0
    /\ Deg(Params.total_images + 1) \in DOMAIN surfaceCoverageDict
    /\ percentagesDictTowardsPlanet = surfaceCoverageDict[0]
    /\ percentagesDictTowardsPlanet
         # surfaceCoverageDict[Deg(Params.total_images + 1)]

\* the exposures whose file this run has written are 0..k-1, written in
\* that order and once each, for the number k of exposures that ran to
\* their end; a run that failed in an exposure has k < total_images and a
\* run that completed has k = total_images
WrittenInOrder ==
    /\ index \in 0..Params.total_images
    /\ writeLog = [n \in 1..index |-> n - 1]
    /\ 0..(index - 1) \subseteq DOMAIN outDir
    /\ run = 1 => DOMAIN outDir = 0..(index - 1)
    /\ pc \in {"start", "ValueError"} => index = 0
    /\ pc \in {"FileNotFoundError", "KeyError"} => index < Params.total_images
    /\ pc = "done" => index = Params.total_images

\* a step writes no file but that of the exposure it completes and removes
\* none
PriorFilesIntact ==
    /\ DOMAIN outDir' \subseteq DOMAIN outDir \cup {index}
    /\ \A n \in DOMAIN outDir :
         /\ n \in DOMAIN outDir'
         /\ (n # index \/ index' = index) => outDir'[n] = outDir[n]

\* C14: at every point of a run the files written are exactly phase0.csv ..
\* phase(k-1).csv for the number k of completed exposures, written in
\* increasing order and once each; a failed exposure writes nothing and
\* leaves the files before it as they were, and a completed run has written
\* total_images files.
C14_FilesWritten == [](WrittenInOrder) /\ [][PriorFilesIntact]_vars

C14_Witness ==
    /\ pc = "KeyError" /\ run = 1
    /\ Params.total_images = 3 /\ index = 2
    /\ DOMAIN outDir = {0, 1} /\ writeLog = <<0, 1>>
    /\ outDir[0] # outDir[1]

C16_ConversionOnce ==
    pc \in {"loop", "done", "FileNotFoundError", "KeyError"} =>
      LET c == FMul(FMul(FMul(Params.erg_sTOwatts, Params.cm2TOm2),
                         Params.cmTOum), Params.distanceFluxCorrection)
          Base(t) ==
            /\ t.wavelength = stellarFiles.phot.wavelength
            /\ \A w \in Bins :
                 /\ t.photflux[w] = FMul(stellarFiles.phot.flux[w], c)
                 /\ t.spotflux[w] = FMul(stellarFiles.spot.flux[w], c)
                 /\ t.facflux[w] = FMul(stellarFiles.fac.flux[w], c)
      IN  /\ Base(allModelSpectra)
          /\ \A n \in DOMAIN outDir :
               /\ Base(outDir[n])
               /\ outDir[n].wavelength = outDir[0].wavelength
               /\ outDir[n].photflux = outDir[0].photflux
               /\ outDir[n].spotflux = outDir[0].spotflux
               /\ outDir[n].facflux = outDir[0].facflux

C16_Witness ==
    /\ pc = "done" /\ run = 1 /\ index = 3
    /\ outDir[2].photflux = outDir[0].photflux
    /\ outDir[2].photflux # stellarFiles.phot.flux
    /\ outDir[2].sumfluxTowardsPlanet # outDir[0].sumfluxTowardsPlanet
    /\ outDir[2].planetReflection # outDir[0].planetReflection

\* the progress lines printed so far
ProgressPrinted ==
    {stdout[n].value : n \in {m \in 1..Len(stdout) : stdout[m].text = "% Complete"}}

\* C17 as claimed: whatever total_images is, a run that completed has
\* printed a progress line for 25%, for 50% and for 75%.
C17_QuarterMilestones ==
    pc = "done" => {25, 50, 75} \subseteq ProgressPrinted

---------------------------------------------------------------------------
(* Properties of the phase-resolved analyzer *)

NonDecreasing(q) == \A i \in 1..(Len(q) - 1) : q[i] <= q[i + 1]

\* __init__ is past the unwrapping loop
Unwrapped == apc \notin {"start", "UnitConversionError"}

\* C8 as claimed: for every recorded phase sequence the construction yields
\* a unique_phase that is non-decreasing, starts at the first recorded phase
\* and differs from the recorded phase by a non-negative multiple of 360
\* everywhere; [350, 10, 20] gives [350, 370, 380].
C8_UnwrappedMonotone ==
    apc # "start" =>
      /\ Unwrapped
      /\ NonDecreasing(unique_phase)
      /\ unique_phase[1] = phase[1]
      /\ \A i \in 1..Len(phase) :
           /\ unique_phase[i] >= phase[i]
           /\ (unique_phase[i] - phase[i]) % 360 = 0
      /\ phase = <<350, 10, 20>> => unique_phase = <<350, 370, 380>>

\* C9 as claimed: past the unwrapping loop every value is greater than its
\* predecessor, a value equal to its predecessor having had 360 added.
C9_StrictlyIncreasing ==
    Unwrapped =>
      \A i \in 1..(Len(unique_phase) - 1) :
        unique_phase[i + 1] > unique_phase[i]

\* C9 amended: 360 is added to a value only when it is smaller than its
\* predecessor; when no recorded phase is smaller than its predecessor,
\* equal ones included, no addition is attempted and unique_phase is the
\* recorded phase.
C9_OnlySmallerUnwrapped ==
    (apc # "start" /\ NonDecreasing(obsFile)) =>
      /\ Unwrapped
      /\ unique_phase = obsFile

C9_Witness ==
    /\ apc = "ready"
    /\ \E i \in 1..(Len(phase) - 1) : phase[i] = phase[i + 1]
    /\ \E i \in 1..(Len(phase) - 1) : phase[i] < phase[i + 1]
    /\ unique_phase = phase

\* C10: combine('noise', (0, N)) is, for every wavelength bin, the square
\* root of sum(noise[:, 0:N]**2) / N**2, whatever the noise flag.
C10_CombineNoise ==
    (call # NoRecord /\ call.source = "noise" /\ call.start = 0
       /\ call.stop <= Len(expFiles)) =>
      \A w \in Bins :
        /\ combined[w].root
        /\ combined[w].den # 0
        /\ combined[w].num * call.stop * call.stop =
             combined[w].den
               * SumOver([i \in 1..call.stop |->
                            expFiles[i]["noise"][w] * expFiles[i]["noise"][w]],
                         1..call.stop)

C10_Witness ==
    /\ call # NoRecord /\ call.source = "noise" /\ call.noise
    /\ call.start = 0 /\ call.stop = 2 /\ Len(expFiles) > 2
    /\ \A w \in Bins : combined[w].root /\ combined[w].num > 4

\* the column of the files an attribute of the analyzer comes from
ColumnOf(attribute) ==
    IF attribute = "thermal" THEN "planet_thermal" ELSE attribute

\* C11: when lightcurve is called with an integer normalize = j the series
\* it returns is unitless and its value at exposure j, if finite, is 1.0;
\* for a single spectral bin k without noise whose flux at exposure j is not
\* zero, every value is the flux of its exposure in bin k divided by the
\* flux of exposure j in bin k, so that the value at exposure j is exactly
\* 1.0 (source 'star', normalize 0 included).
C11_LightcurveNormalized ==
    (lcCall # NoRecord /\ lcCall.normalize.kind = "int") =>
      LET j == lcCall.normalize.at + 1
          k == lcCall.pixel.start + 1
          y == [i \in 1..Len(expFiles) |->
                  expFiles[i][ColumnOf(lcCall.source)][k]]
      IN  /\ lc.unit = ""
          /\ Len(lc.values) = Len(expFiles)
          /\ lc.values[j].finite => lc.values[j].value = One
          /\ (lcCall.pixel.single /\ ~lcCall.noise /\ y[j] # 0) =>
                /\ lc.values[j] = [finite |-> TRUE, value |-> One]
                /\ \A i \in 1..Len(expFiles) :
                     lc.values[i] =
                       [finite |-> TRUE, value |-> RoundQ(y[i] * One, y[j])]

C11_Witness ==
    /\ lcCall # NoRecord /\ lcCall.source = "star"
    /\ lcCall.normalize = [kind |-> "int", at |-> 1]
    /\ lcCall.pixel.single /\ ~lcCall.noise
    /\ Len(expFiles) > 2
    /\ lc.values[2] = [finite |-> TRUE, value |-> One]
    /\ lc.values[1].finite /\ lc.values[1].value > One
    /\ lc.values[3].finite /\ lc.values[3].value < One

\* the columns whose pattern __init__ looks for
FluxColumns == {"star", "reflected", "planet_thermal", "total", "noise"}

\* some file lacks one of the flux columns
FluxColumnMissing ==
    \E i \in 1..Len(expFiles) : \E k \in FluxColumns : k \notin DOMAIN expFiles[i]

\* some file lacks the wavelength column
WavelengthMissing ==
    \E i \in 1..Len(expFiles) : "wavelength" \notin DOMAIN expFiles[i]

ConstructionFailed ==
    /\ apc \in {"UnitConversionError", "KeyError", "IndexError"}
    /\ data = NoRecord

\* C12 as claimed: when any exposure file lacks any of the six columns, the
\* wavelength column included, the construction fails and no dataset is
\* assembled.
C12_AnyMissingColumnFatal ==
    (apc # "start" /\ (FluxColumnMissing \/ WavelengthMissing))
    => ConstructionFailed

\* C12 amended: the construction fails, with no dataset assembled, when any
\* exposure file lacks one of the five flux columns or when the first file
\* lacks the wavelength column; the wavelength column is looked for in the
\* first file only, so that files complete but for the wavelength column of
\* a later one are assembled in full when the phases need no unwrapping.
C12_MissingColumnFatal ==
    apc # "start" =>
      /\ (FluxColumnMissing \/ "wavelength" \notin DOMAIN expFiles[1])
         => ConstructionFailed
      /\ (~FluxColumnMissing /\ "wavelength" \in DOMAIN expFiles[1]
            /\ NonDecreasing(obsFile))
         => /\ apc = "ready"
            /\ \A w \in Bins : \A i \in 1..Len(expFiles) :
                 /\ data.star[w][i] = expFiles[i]["star"][w]
                 /\ data.reflected[w][i] = expFiles[i]["reflected"][w]
                 /\ data.thermal[w][i] = expFiles[i]["planet_thermal"][w]
                 /\ data.total[w][i] = expFiles[i]["total"][w]
                 /\ data.noise[w][i] = expFiles[i]["noise"][w]

C12_Witness ==
    /\ apc = "IndexError" /\ data = NoRecord
    /\ NonDecreasing(obsFile)
    /\ Len(expFiles) = 3
    /\ "noise" \notin DOMAIN expFiles[3]
    /\ \A i \in 1..2 : \A k \in FluxColumns : k \in DOMAIN expFiles[i]

---------------------------------------------------------------------------
(* Properties of the configuration model *)

\* the positions in the merge order of the groups whose translation holds
\* key k
Contributors(k) ==
    {g \in 1..5 :
       k \in DOMAIN parameters[<<"star", "planet", "system", "psg", "inst">>[g]]}

\* C13: what to_psg returns has exactly the key GENERATOR-NOISEFRAMES and
\* the keys of the translations of star, planet, system, psg and inst; the
\* value of a key is the one of the last of these groups, in that order,
\* whose translation holds it, and the seed (the rounded ratio of the
\* integration times, as a string) when none does.
C13_MergeOrder ==
    pc = "returned" =>
      /\ DOMAIN config =
           {"GENERATOR-NOISEFRAMES"}
           \cup DOMAIN parameters.star \cup DOMAIN parameters.planet
           \cup DOMAIN parameters.system \cup DOMAIN parameters.psg
           \cup DOMAIN parameters.inst
      /\ \A k \in DOMAIN config :
           IF Contributors(k) = {}
           THEN config[k] =
                  (CASE parameters.obs_integration_time = 1 -> "0"
                     [] parameters.obs_integration_time = 3 -> "2"
                     [] parameters.obs_integration_time = 5 -> "2")
           ELSE LET last == CHOOSE g \in Contributors(k) :
                              \A h \in Contributors(k) : h <= g
                IN  config[k] =
                      parameters[<<"star", "planet", "system", "psg", "inst">>[last]][k]

C13_Witness ==
    /\ pc = "returned"
    /\ Contributors("GENERATOR-NOISEFRAMES") = {}
    /\ config["GENERATOR-NOISEFRAMES"] = "2"
    /\ Contributors("OBJECT-STAR-TYPE") = {1, 4}
    /\ config["OBJECT-STAR-TYPE"] = "psg"
    /\ Contributors("GENERATOR-RANGE1") = {2, 4, 5}
    /\ config["GENERATOR-RANGE1"] = "inst"

---------------------------------------------------------------------------
(* The unit of the unwrapping increment *)

\* C18 as claimed: the increment of the unwrapping is an angle in the unit
\* of the recorded phase, so that for every recorded sequence in which some
\* phase is smaller than its predecessor the construction raises no unit
\* error and gets past the unwrapping with a unique_phase that differs from
\* the recorded phase by multiples of 360 degrees.
C18_IncrementIsAnAngle ==
    (apc # "start" /\ ~NonDecreasing(obsFile)) =>
      /\ apc # "UnitConversionError"
      /\ unique_phase # obsFile
      /\ \A i \in 1..Len(obsFile) :
           (unique_phase[i] - obsFile[i]) % 360 = 0

=============================================================================
